---- MODULE Spec2Model ----
(***************************************************************************)
(* FakeBuster backend (backend/app/main.py, backend/app/features.py):      *)
(* the feature extractor, the classifier (trained model and rule-based     *)
(* fallback), the website trust scorer and the review-analysis handlers.   *)
(*                                                                         *)
(* Texts are strings; Python's str operations are modelled character by    *)
(* character.  Probabilities are kept in percent (0..100), Python floats   *)
(* that come from a true division are kept as exact fractions [num, den].  *)
(***************************************************************************)
EXTENDS Integers, Sequences, FiniteSets, TLC

VARIABLES ML_AVAILABLE,   \* main.py:45/47, set once at import
          np_bound,       \* whether the name np is bound in main.py (line 41)
          xgboost_pkl,    \* models/xgboost_model.pkl on disk
          processed_pkl,  \* models/processed_reviews.pkl on disk
          review_model,   \* main.py:72 global
          vectorizer,     \* main.py:73 global
          phase,          \* "boot", "serving" or "startup_failed"
          request,        \* the call this behaviour makes, with its arguments
          response        \* what the call returned or raised

vars == <<ML_AVAILABLE, np_bound, xgboost_pkl, processed_pkl,
          review_model, vectorizer, phase, request, response>>

env == <<ML_AVAILABLE, np_bound, xgboost_pkl, processed_pkl,
         review_model, vectorizer, phase, request>>

-----------------------------------------------------------------------------
(* Bounds of the model.                                                    *)

\* number of chunks an input text is concatenated from
MaxChunks == 3
\* number of entries of suspicious_elements
MaxSuspicious == 3
\* number of reviews in a batch
MaxBatch == 2
\* number of requests served by one process
MaxRequests == 2

-----------------------------------------------------------------------------
(* Python str operations.                                                  *)

Char(s, i) == SubSeq(s, i, i)

SetOfChars(s) == {Char(s, i) : i \in 1..Len(s)}

\* the slice s[i-1:j]: it stops at the end of s
Slice(s, i, j) == SubSeq(s, i, IF j > Len(s) THEN Len(s) ELSE j)

ascii_lowercase == "abcdefghijklmnopqrstuvwxyz"
ascii_uppercase == "ABCDEFGHIJKLMNOPQRSTUVWXYZ"
digits == "0123456789"
\* string.punctuation, less the backquote (no input text holds one)
punctuation == "!\"#$%&'()*+,-./:;<=>?@[\\]^_{|}~"
whitespace == " \t\n\r\f"

UpperChars == SetOfChars(ascii_uppercase)
LowerChars == SetOfChars(ascii_lowercase)
Letters == LowerChars \cup UpperChars
Digits == SetOfChars(digits)
PunctuationChars == SetOfChars(punctuation)
WhitespaceChars == SetOfChars(whitespace)

\* c.isupper() / c.islower() / c.isdigit() / c.isspace() of one character
isupper(c) == c \in UpperChars
islower(c) == c \in LowerChars
isdigit(c) == c \in Digits
isspace(c) == c \in WhitespaceChars

\* str.lower() of one character
LowerChar(c) ==
    IF isupper(c)
    THEN LET i == CHOOSE k \in 1..Len(ascii_uppercase) : Char(ascii_uppercase, k) = c
         IN Char(ascii_lowercase, i)
    ELSE c

\* str.lower()
RECURSIVE lower(_)
lower(s) == IF s = "" THEN "" ELSE LowerChar(Head(s)) \o lower(Tail(s))

\* `sub in s`
Contains(sub, s) ==
    \E i \in 1..(Len(s) - Len(sub) + 1) : SubSeq(s, i, i + Len(sub) - 1) = sub

\* number of characters of s that satisfy a test: sum(1 for c in s if ...)
CountIn(s, set) == Cardinality({i \in 1..Len(s) : Char(s, i) \in set})

\* s.count(c) for a one-character c
count(s, c) == CountIn(s, {c})

\* s.split(): the maximal runs of non-whitespace characters, in order
RECURSIVE SplitFrom(_, _, _)
SplitFrom(s, i, word) ==
    IF i > Len(s)
    THEN IF word = "" THEN <<>> ELSE <<word>>
    ELSE IF isspace(Char(s, i))
         THEN (IF word = "" THEN <<>> ELSE <<word>>) \o SplitFrom(s, i + 1, "")
         ELSE SplitFrom(s, i + 1, word \o Char(s, i))

split(s) == SplitFrom(s, 1, "")

\* word.isupper(): at least one cased character and no lower-case one
str_isupper(w) ==
    /\ \E i \in 1..Len(w) : isupper(Char(w, i))
    /\ \A i \in 1..Len(w) : ~islower(Char(w, i))

RECURSIVE SumLen(_)
SumLen(words) == IF words = <<>> THEN 0 ELSE Len(Head(words)) + SumLen(Tail(words))

\* all the sequences of at most n elements of S
RECURSIVE SeqsUpTo(_, _)
SeqsUpTo(S, n) ==
    IF n = 0 THEN {<<>>}
    ELSE LET T == SeqsUpTo(S, n - 1)
         IN T \cup {Append(t, x) : t \in T, x \in S}

\* all the concatenations of at most n chunks
RECURSIVE TextsUpTo(_, _)
TextsUpTo(chunks, n) ==
    IF n = 0 THEN {""}
    ELSE LET S == TextsUpTo(chunks, n - 1)
         IN S \cup {s \o c : s \in S, c \in chunks}

-----------------------------------------------------------------------------
(* Python numbers.  n / d is a float, kept as the exact fraction; a        *)
(* division by zero raises, kept as the fraction 0/0.                      *)

Frac(n, d) == [num |-> n, den |-> d]
Zero == Frac(0, 1)
ZeroDivision == Frac(0, 0)

TrueDiv(n, d) == IF d = 0 THEN ZeroDivision ELSE Frac(n, d)

-----------------------------------------------------------------------------
(* features.py                                                             *)

\* re.search(r'[a-zA-Z0-9._%+-]+@[a-zA-Z0-9.-]+\.[a-zA-Z]{2,}', text)
EmailLocalChars == Letters \cup Digits \cup SetOfChars("._%+-")
EmailDomainChars == Letters \cup Digits \cup SetOfChars(".-")

email_search(text) ==
    \E at \in 2..Len(text) :
        /\ Char(text, at) = "@"
        /\ Char(text, at - 1) \in EmailLocalChars
        /\ \E dot \in (at + 2)..(Len(text) - 2) :
              /\ \A k \in (at + 1)..(dot - 1) : Char(text, k) \in EmailDomainChars
              /\ Char(text, dot) = "."
              /\ Char(text, dot + 1) \in Letters
              /\ Char(text, dot + 2) \in Letters

\* re.search(r'http[s]?://(?:[a-zA-Z]|[0-9]|[$-_@.&+]|[!*\\(\\),]|(?:%[0-9a-fA-F][0-9a-fA-F]))+', text)
\* [$-_] is the range from '$' to '_'; it holds '%', so the %XX branch adds nothing
UrlChars == Letters \cup Digits
            \cup SetOfChars("$%&'()*+,-./:;<=>?@[\\]^_")
            \cup SetOfChars("@.&+") \cup SetOfChars("!*\\(),")

url_search(text) ==
    \E i \in 1..Len(text) :
        \/ /\ Slice(text, i, i + 6) = "http://"
           /\ i + 7 <= Len(text)
           /\ Char(text, i + 7) \in UrlChars
        \/ /\ Slice(text, i, i + 7) = "https://"
           /\ i + 8 <= Len(text)
           /\ Char(text, i + 8) \in UrlChars

text_length(text) == Len(text)
word_count(text) == Len(split(text))

avg_word_length(text) ==
    LET words == split(text)
    IN IF words # <<>> THEN TrueDiv(SumLen(words), Len(words)) ELSE Zero

\* a variant without the `if text else 0` guard
uppercase_ratio_unguarded(text) == TrueDiv(CountIn(text, UpperChars), Len(text))

uppercase_ratio(text) ==
    IF text # "" THEN TrueDiv(CountIn(text, UpperChars), Len(text)) ELSE Zero

digit_ratio(text) ==
    IF text # "" THEN TrueDiv(CountIn(text, Digits), Len(text)) ELSE Zero

punctuation_ratio(text) ==
    IF text # "" THEN TrueDiv(CountIn(text, PunctuationChars), Len(text)) ELSE Zero

exclamation_count(text) == count(text, "!")
question_count(text) == count(text, "?")
has_email(text) == IF email_search(text) THEN 1 ELSE 0
has_url(text) == IF url_search(text) THEN 1 ELSE 0

\* the dict built at features.py:11-22
xgboost_features(text) ==
    [text_length       |-> text_length(text),
     word_count        |-> word_count(text),
     avg_word_length   |-> avg_word_length(text),
     uppercase_ratio   |-> uppercase_ratio(text),
     digit_ratio       |-> digit_ratio(text),
     punctuation_ratio |-> punctuation_ratio(text),
     exclamation_count |-> exclamation_count(text),
     question_count    |-> question_count(text),
     has_email         |-> has_email(text),
     has_url           |-> has_url(text)]

\* a variant that lists question_count before exclamation_count
feature_array_swapped(features) ==
    <<features.text_length,
      features.word_count,
      features.avg_word_length,
      features.uppercase_ratio,
      features.digit_ratio,
      features.punctuation_ratio,
      features.question_count,
      features.exclamation_count,
      features.has_email,
      features.has_url>>

\* the list built at features.py:26-37
feature_array(features) ==
    <<features.text_length,
      features.word_count,
      features.avg_word_length,
      features.uppercase_ratio,
      features.digit_ratio,
      features.punctuation_ratio,
      features.exclamation_count,
      features.question_count,
      features.has_email,
      features.has_url>>

\* a division by zero while the dict is built raises out of the function
RaisesZeroDivision(fracs) ==
    IF ZeroDivision \in fracs THEN "ZeroDivisionError" ELSE "none"

extract_features_for_xgboost(text) ==
    LET features == xgboost_features(text)
        exc == RaisesZeroDivision({features.avg_word_length, features.uppercase_ratio,
                                   features.digit_ratio, features.punctuation_ratio})
    IN [raised |-> exc,
        value  |-> IF exc = "none" THEN feature_array(features) ELSE <<>>]

\* the values TextBlob may report: (polarity, subjectivity), in tenths
SentimentValues == {<<0, 0>>, <<-5, 10>>, <<8, 6>>}

caps_words_count(text) ==
    LET words == split(text)
    IN Cardinality({i \in 1..Len(words) : str_isupper(words[i]) /\ Len(words[i]) > 1})

\* textblob: whether `from textblob import TextBlob` succeeds; sentiment: what it reports
extract_additional_features(text, textblob, sentiment) ==
    LET exc == RaisesZeroDivision({uppercase_ratio(text), digit_ratio(text)})
    IN [raised |-> exc,
        value  |-> IF exc # "none" THEN [text_length |-> text_length(text)]
                   ELSE [text_length       |-> text_length(text),
                         word_count        |-> word_count(text),
                         uppercase_ratio   |-> uppercase_ratio(text),
                         exclamation_count |-> exclamation_count(text),
                         question_count    |-> question_count(text),
                         has_email         |-> email_search(text),
                         has_url           |-> url_search(text),
                         caps_words_count  |-> caps_words_count(text),
                         digit_ratio       |-> digit_ratio(text),
                         sentiment_polarity     |-> IF textblob THEN sentiment[1] ELSE 0,
                         sentiment_subjectivity |-> IF textblob THEN sentiment[2] ELSE 0]]

-----------------------------------------------------------------------------
(* main.py: the website trust scorer.  A dict value is <<>> when the key   *)
(* is absent and <<v>> when it is present.                                 *)

\* data.get(key, default)
Get(field, default) == IF field = <<>> THEN default ELSE field[1]

Max(a, b) == IF a >= b THEN a ELSE b
Min(a, b) == IF a <= b THEN a ELSE b

InList(x, list) == \E i \in 1..Len(list) : list[i] = x

BaseScore == 50

\* a variant that lets a young or unknown domain go unpenalised
DomainAgeDelta_no_penalty(domain_age) ==
    IF domain_age > 365 THEN 15
    ELSE IF domain_age > 90 THEN 5
    ELSE 0

\* main.py:299-305
DomainAgeDelta(domain_age) ==
    IF domain_age > 365 THEN 15
    ELSE IF domain_age > 90 THEN 5
    ELSE -10

\* the sum of main.py:274-310, before the clamp of line 312
RawTrustScore(analysis_data) ==
    LET s0 == BaseScore
        s1 == IF Get(analysis_data.has_ssl, FALSE) THEN s0 + 20 ELSE s0 - 20
        s2 == IF Get(analysis_data.has_contact_info, FALSE) THEN s1 + 15 ELSE s1
        s3 == IF Get(analysis_data.has_privacy_policy, FALSE) THEN s2 + 10 ELSE s2
        s4 == IF Get(analysis_data.has_terms_of_service, FALSE) THEN s3 + 10 ELSE s3
        suspicious_count == Len(Get(analysis_data.suspicious_elements, <<>>))
        s5 == s4 - suspicious_count * 10
        domain_age == Get(analysis_data.domain_age_days, 0)
        s6 == s5 + DomainAgeDelta(domain_age)
        url_length == Get(analysis_data.url_length, 0)
        s7 == IF url_length > 100 THEN s6 - 5 ELSE s6
    IN s7

\* a variant that returns the sum unclamped
calculate_website_trust_score_unclamped(analysis_data) == RawTrustScore(analysis_data)

calculate_website_trust_score(analysis_data) ==
    Max(0, Min(100, RawTrustScore(analysis_data)))

\* a variant that warns once per occurrence of 'excessive_popups'
Warnings_per_occurrence(data) ==
    (IF ~Get(data.has_ssl, FALSE)
     THEN <<"Website does not use HTTPS encryption">> ELSE <<>>)
    \o (IF ~Get(data.has_contact_info, FALSE)
        THEN <<"No contact information found">> ELSE <<>>)
    \o [i \in 1..Len(SelectSeq(Get(data.suspicious_elements, <<>>),
                               LAMBDA e : e = "excessive_popups"))
           |-> "Excessive popup advertisements detected"]
    \o (IF InList("urgency_tactics", Get(data.suspicious_elements, <<>>))
        THEN <<"Urgency pressure tactics detected">> ELSE <<>>)

\* main.py:318-331
Warnings(data) ==
    (IF ~Get(data.has_ssl, FALSE)
     THEN <<"Website does not use HTTPS encryption">> ELSE <<>>)
    \o (IF ~Get(data.has_contact_info, FALSE)
        THEN <<"No contact information found">> ELSE <<>>)
    \o (IF InList("excessive_popups", Get(data.suspicious_elements, <<>>))
        THEN <<"Excessive popup advertisements detected">> ELSE <<>>)
    \o (IF InList("urgency_tactics", Get(data.suspicious_elements, <<>>))
        THEN <<"Urgency pressure tactics detected">> ELSE <<>>)

\* a variant with exclusive thresholds
Verdict_exclusive(trust_score) ==
    IF trust_score > 70
    THEN [risk_level |-> "low", status |-> "safe", is_legitimate |-> TRUE]
    ELSE IF trust_score > 40
    THEN [risk_level |-> "medium", status |-> "warning", is_legitimate |-> TRUE]
    ELSE [risk_level |-> "high", status |-> "danger", is_legitimate |-> FALSE]

\* main.py:333-345
Verdict(trust_score) ==
    IF trust_score >= 70
    THEN [risk_level |-> "low", status |-> "safe", is_legitimate |-> TRUE]
    ELSE IF trust_score >= 40
    THEN [risk_level |-> "medium", status |-> "warning", is_legitimate |-> TRUE]
    ELSE [risk_level |-> "high", status |-> "danger", is_legitimate |-> FALSE]

analyze_website_legitimacy(data) ==
    LET trust_score == calculate_website_trust_score(data)
        warnings == Warnings(data)
        verdict == Verdict(trust_score)
    IN [trust_score   |-> trust_score,
        status        |-> verdict.status,
        warnings      |-> warnings,
        is_legitimate |-> verdict.is_legitimate,
        risk_level    |-> verdict.risk_level]

-----------------------------------------------------------------------------
(* main.py: FallbackReviewClassifier.  A row of X is one of                *)
(*   [kind |-> "str", text |-> s]           a Python str                   *)
(*   [kind |-> "list", value |-> v]         a Python list of numbers       *)
(*   [kind |-> "ndarray", value |-> <<s>>]  a numpy array of strings       *)

Digit(d) == Char(digits, d + 1)

\* str(n) of an int n >= 0
RECURSIVE StrInt(_)
StrInt(n) == IF n < 10 THEN Digit(n) ELSE StrInt(n \div 10) \o Digit(n % 10)

\* the decimal digits of rem / den after the point, at most `left` of them
RECURSIVE Decimals(_, _, _)
Decimals(rem, den, left) ==
    IF rem = 0 \/ left = 0 THEN ""
    ELSE Digit((rem * 10) \div den) \o Decimals((rem * 10) % den, den, left - 1)

\* str(x) of a float x = num / den >= 0: the digits of the quotient (Python prints
\* the shortest digits that round-trip; the characters are of the same kind)
StrFloat(x) ==
    LET frac == Decimals(x.num % x.den, x.den, 16)
    IN StrInt(x.num \div x.den) \o "." \o (IF frac = "" THEN "0" ELSE frac)

\* ", ".join(parts) and " ".join(parts)
RECURSIVE Join(_, _)
Join(sep, parts) ==
    IF parts = <<>> THEN ""
    ELSE IF Len(parts) = 1 THEN parts[1]
    ELSE parts[1] \o sep \o Join(sep, Tail(parts))

\* str(v) of the list features.py:26-37 builds: elements 3..6 are floats
StrFeatureList(v) ==
    "[" \o Join(", ", [k \in 1..Len(v) |->
                          IF k \in 3..6 THEN StrFloat(v[k]) ELSE StrInt(v[k])]) \o "]"

\* main.py:219-220 and the str(text) of line 229
RowText(row) ==
    IF row.kind = "ndarray" THEN Join(" ", row.value)
    ELSE IF row.kind = "list" THEN StrFeatureList(row.value)
    ELSE row.text

\* main.py:222-226
fake_indicators ==
    <<"amazing", "perfect", "best ever", "life changing",
      "highly recommend", "must buy", "incredible",
      "outstanding", "excellent quality", "fast shipping">>

\* sum(1 for indicator in indicators if indicator in text_lower)
CountPhrases(indicators, text_lower) ==
    Cardinality({k \in 1..Len(indicators) : Contains(indicators[k], text_lower)})

\* a variant without the cap
FakeProb_uncapped(fake_score) == fake_score * 20

\* main.py:233: min(fake_score / 5.0, 0.9), in percent
FakeProb(fake_score) == Min(fake_score * 20, 90)

\* main.py:214-236: one [1 - fake_prob, fake_prob] per row, in percent
predict_proba(X) ==
    [r \in 1..Len(X) |->
        LET text_lower == lower(RowText(X[r]))
            fake_score == CountPhrases(fake_indicators, text_lower)
            fake_prob == FakeProb(fake_score)
        IN <<100 - fake_prob, fake_prob>>]

-----------------------------------------------------------------------------
(* main.py: model loading.                                                 *)

\* FallbackReviewClassifier() and TfidfVectorizer(...) of main.py:197-198 take no
\* input that could make them raise
FallbackInitRaises == FALSE

\* main.py:192-205, the FileNotFoundError handler
OnFileNotFound ==
    IF ML_AVAILABLE
    THEN IF FallbackInitRaises
         THEN [review_model |-> "None", vectorizer |-> "None", raised |-> "none"]
         ELSE [review_model |-> "Fallback", vectorizer |-> "Tfidf", raised |-> "none"]
    ELSE [review_model |-> "None", vectorizer |-> "None", raised |-> "none"]

\* main.py:207-209: any other exception is logged and raised again; what was
\* assigned before it stays assigned
OnOtherException(model) ==
    [review_model |-> model, vectorizer |-> vectorizer, raised |-> "UnpicklingError"]

\* main.py:164-209
load_models ==
    IF ~ML_AVAILABLE
    THEN [review_model |-> "None", vectorizer |-> "None", raised |-> "none"]
    ELSE IF xgboost_pkl = "absent" THEN OnFileNotFound
    ELSE IF xgboost_pkl = "corrupt" THEN OnOtherException(review_model)
    ELSE IF processed_pkl = "absent" THEN OnFileNotFound
    ELSE IF processed_pkl = "corrupt" THEN OnOtherException("Trained")
    ELSE [review_model |-> "Trained", vectorizer |-> "Data", raised |-> "none"]

-----------------------------------------------------------------------------
(* main.py: the review handlers.                                           *)

\* main.py:23, the names main.py imports from features.py
MainImports == {"extract_features_for_xgboost"}

HTTPException(status_code, detail) ==
    [type |-> "HTTPException", status_code |-> status_code, detail |-> detail]

NameError(name) ==
    [type |-> "NameError", detail |-> "name '" \o name \o "' is not defined"]

\* x > n / d for a fraction x
FracGt(x, n, d) == x.num * d > n * x.den

positive_words == <<"amazing", "excellent", "perfect", "outstanding", "incredible">>
negative_words == <<"terrible", "awful", "horrible", "worst", "disappointing">>
review_fake_indicators ==
    <<"life changing", "best purchase ever", "highly recommend",
      "must buy", "changed my life", "amazing quality">>

\* main.py:242-270; np.mean of line 252 is reached when the text has a word
extract_features_from_review(text) ==
    IF split(text) # <<>> /\ ~np_bound
    THEN [raised |-> "NameError", exc |-> NameError("np")]
    ELSE [raised |-> "none",
          value |->
            [length |-> Len(text),
             word_count |-> Len(split(text)),
             exclamation_count |-> count(text, "!"),
             caps_ratio |-> IF text # "" THEN TrueDiv(CountIn(text, UpperChars), Len(text))
                            ELSE Zero,
             punctuation_ratio |-> IF text # ""
                                   THEN TrueDiv(CountIn(text, SetOfChars("!.,?;:")), Len(text))
                                   ELSE Zero,
             avg_word_length |-> avg_word_length(text),
             positive_word_count |-> CountPhrases(positive_words, lower(text)),
             negative_word_count |-> CountPhrases(negative_words, lower(text)),
             fake_indicator_count |-> CountPhrases(review_fake_indicators, lower(text))]]

\* a variant that applies the model path's threshold
IsFakeRuleBased_at70(fake_probability) == fake_probability > 70

\* main.py:414: is_fake = fake_probability > 0.5
IsFakeRuleBased(fake_probability) == fake_probability > 50

\* main.py:454: is_fake = fake_probability > 0.7
IsFakeModel(fake_probability) == fake_probability > 70

\* a variant that reports the probability itself
Confidence_raw(fake_probability) == fake_probability

\* main.py:433, 472: fake_probability if fake_probability > 0.5 else 1 - fake_probability
Confidence(fake_probability) ==
    IF fake_probability > 50 THEN fake_probability ELSE 100 - fake_probability

Indicator(cond, message) == IF cond THEN <<message>> ELSE <<>>

\* Op applied to the value of v, computed once (a local variable of the code)
With(v, Op(_)) == CHOOSE r \in {Op(x) : x \in {v}} : TRUE

\* what the loops carry from item to item; is_fake_trace records every is_fake
\* the handler computed, with the variant that produced its probability
LoopStart ==
    [raised |-> "none", exc |-> <<>>, fake_count |-> 0,
     detailed_analysis |-> <<>>, is_fake_trace |-> <<>>]

\* main.py:413-436, the loop body after the features of review number i (from 1)
RuleBasedScored(acc, i, features) ==
    LET fake_probability == Min(features.fake_indicator_count * 20, 90)
        is_fake == IsFakeRuleBased(fake_probability)
        indicators ==
            Indicator(features.fake_indicator_count > 2,
                      "Contains multiple fake review phrases")
            \o Indicator(FracGt(features.caps_ratio, 3, 10), "Excessive capitalization")
            \o Indicator(features.exclamation_count > 3, "Excessive exclamation marks")
            \o Indicator(features.positive_word_count > 5, "Unnaturally positive language")
    IN [raised |-> "none", exc |-> <<>>,
        fake_count |-> acc.fake_count + (IF is_fake THEN 1 ELSE 0),
        detailed_analysis |-> Append(acc.detailed_analysis,
            [review_index |-> i - 1,
             fake_probability |-> fake_probability,
             is_fake |-> is_fake,
             confidence |-> Confidence(fake_probability),
             indicators |-> indicators,
             features |-> features]),
        is_fake_trace |-> Append(acc.is_fake_trace,
            [variant |-> "rules", fake_probability |-> fake_probability,
             is_fake |-> is_fake])]

\* main.py:411-436, the body of the loop for review number i (from 1)
RuleBasedItem(acc, i, text) ==
    With(extract_features_from_review(text),
         LAMBDA f : IF f.raised # "none"
                    THEN [acc EXCEPT !.raised = f.raised, !.exc = f.exc]
                    ELSE RuleBasedScored(acc, i, f.value))

RECURSIVE RuleBasedLoop(_, _, _)
RuleBasedLoop(reviews, i, acc) ==
    IF i > Len(reviews) \/ acc.raised # "none" THEN acc
    ELSE With(RuleBasedItem(acc, i, reviews[i]),
              LAMBDA next : RuleBasedLoop(reviews, i + 1, next))

\* review_model.predict_proba([features])[0]: the fallback classifier computes it,
\* the trained model returns or raises what `outcome` says
PredictOne(features, outcome) ==
    IF review_model = "Fallback"
    THEN [raised |-> "none",
          pred |-> predict_proba(<<[kind |-> "list", value |-> features]>>)[1]]
    ELSE outcome

\* main.py:453: float(pred[1]) if len(pred) > 1 else float(pred[0])
FakeProbabilityOf(pred) == IF Len(pred) > 1 THEN pred[2] ELSE pred[1]

\* main.py:463-470
ModelIndicators(review_features) ==
    Indicator(review_features.has_email, "Contains email address")
    \o Indicator(review_features.has_url, "Contains URL or link")
    \o Indicator(review_features.exclamation_count > 3, "Excessive exclamation marks")
    \o Indicator(FracGt(review_features.uppercase_ratio, 3, 10), "Excessive capitalization")

\* main.py:453-481, the loop body after the prediction for review number i (from 1)
ModelScored(acc, i, review_text, features, fake_probability) ==
    LET is_fake == IsFakeModel(fake_probability)
        trace == Append(acc.is_fake_trace,
                    [variant |-> review_model, fake_probability |-> fake_probability,
                     is_fake |-> is_fake])
    IN IF "extract_additional_features" \notin MainImports
       THEN [acc EXCEPT !.raised = "NameError",
                        !.exc = NameError("extract_additional_features"),
                        !.is_fake_trace = trace]
       ELSE [raised |-> "none", exc |-> <<>>,
             fake_count |-> acc.fake_count + (IF is_fake THEN 1 ELSE 0),
             detailed_analysis |-> Append(acc.detailed_analysis,
                 [review_index |-> i - 1,
                  fake_probability |-> fake_probability,
                  is_fake |-> is_fake,
                  confidence |-> Confidence(fake_probability),
                  indicators |-> ModelIndicators(
                      extract_additional_features(review_text, FALSE, <<0, 0>>).value),
                  features |-> features]),
             is_fake_trace |-> trace]

\* main.py:447-481, the body of the loop for review number i (from 1)
ModelItem(acc, i, review_text, outcome) ==
    With(extract_features_for_xgboost(review_text).value,
         LAMBDA features :
            With(PredictOne(features, outcome),
                 LAMBDA p :
                    IF p.raised # "none"
                    THEN [acc EXCEPT !.raised = p.raised,
                                     !.exc = [type |-> p.raised,
                                              detail |-> "predict_proba failed"]]
                    ELSE ModelScored(acc, i, review_text, features,
                                     FakeProbabilityOf(p.pred))))

RECURSIVE ModelLoop(_, _, _, _)
ModelLoop(review_texts, oracle, i, acc) ==
    IF i > Len(review_texts) \/ acc.raised # "none" THEN acc
    ELSE With(ModelItem(acc, i, review_texts[i], oracle[i]),
              LAMBDA next : ModelLoop(review_texts, oracle, i + 1, next))

\* a variant that adds up the first item only
SumConfidence_first_only(detailed_analysis) ==
    IF detailed_analysis = <<>> THEN 0 ELSE Head(detailed_analysis).confidence

RECURSIVE SumConfidence(_)
SumConfidence(detailed_analysis) ==
    IF detailed_analysis = <<>> THEN 0
    ELSE Head(detailed_analysis).confidence + SumConfidence(Tail(detailed_analysis))

\* a variant that concatenates from the last item to the first
RECURSIVE FlattenIndicators_reversed(_)
FlattenIndicators_reversed(detailed_analysis) ==
    IF detailed_analysis = <<>> THEN <<>>
    ELSE FlattenIndicators_reversed(Tail(detailed_analysis))
         \o Head(detailed_analysis).indicators

\* [indicator for analysis in detailed_analysis for indicator in analysis['indicators']]
RECURSIVE FlattenIndicators(_)
FlattenIndicators(detailed_analysis) ==
    IF detailed_analysis = <<>> THEN <<>>
    ELSE Head(detailed_analysis).indicators \o FlattenIndicators(Tail(detailed_analysis))

Raise(exc, trace) == [kind |-> "raise", exc |-> exc, is_fake_trace |-> trace]

\* main.py:499-508
ReviewAnalysisResponse(reviews, loop, avg_confidence) ==
    [kind |-> "return",
     value |-> [type |-> "ReviewAnalysisResponse",
                fake_reviews |-> loop.fake_count,
                total_reviews |-> Len(reviews),
                confidence |-> avg_confidence,
                fake_review_indicators |-> FlattenIndicators(loop.detailed_analysis),
                detailed_analysis |-> loop.detailed_analysis],
     is_fake_trace |-> loop.is_fake_trace]

\* main.py:411-438 and 499-508: the rule-based loop, then the summary
RuleBasedDone(reviews, loop) ==
    IF loop.raised # "none" THEN Raise(loop.exc, loop.is_fake_trace)
    ELSE ReviewAnalysisResponse(reviews, loop,
            TrueDiv(SumConfidence(loop.detailed_analysis), Len(loop.detailed_analysis)))

\* a variant whose `except` lets the exception of the loop go on to the caller
ModelDone_reraise(reviews, loop) ==
    IF loop.raised # "none" THEN Raise(loop.exc, loop.is_fake_trace)
    ELSE IF loop.detailed_analysis = <<>>
    THEN Raise(HTTPException(500, "Failed to analyze reviews"), loop.is_fake_trace)
    ELSE ReviewAnalysisResponse(reviews, loop,
            TrueDiv(SumConfidence(loop.detailed_analysis), Len(loop.detailed_analysis)))

\* main.py:484-492 and 499-508: past the model loop; caught is the exception
\* the `except` of line 486 bound to e
ModelDone(reviews, loop) ==
    IF loop.raised # "none"
    THEN [kind |-> "return",
          value |-> [type |-> "dict",
                     error |-> "Model prediction failed: " \o loop.exc.detail],
          caught |-> loop.exc,
          is_fake_trace |-> loop.is_fake_trace]
    ELSE IF loop.detailed_analysis = <<>>
    THEN Raise(HTTPException(500, "Failed to analyze reviews"), loop.is_fake_trace)
    ELSE ReviewAnalysisResponse(reviews, loop,
            TrueDiv(SumConfidence(loop.detailed_analysis), Len(loop.detailed_analysis)))

\* main.py:400-508, the body of the outer try
ReviewsBody(reviews, oracle) ==
    IF reviews = <<>>
    THEN Raise(HTTPException(400, "No reviews provided"), <<>>)
    ELSE IF ~ML_AVAILABLE
    THEN With(RuleBasedLoop(reviews, 1, LoopStart),
              LAMBDA loop : RuleBasedDone(reviews, loop))
    ELSE IF review_model # "None"
    THEN With(ModelLoop(reviews, oracle, 1, LoopStart),
              LAMBDA loop : ModelDone(reviews, loop))
    ELSE Raise(HTTPException(500, "ML model not loaded"), <<>>)

\* main.py:510-512 (and 551-553): `except Exception` catches whatever the body
\* raised, an HTTPException included, and raises the 500 in its place; caught is
\* the exception the `except` bound to e
ExceptException(body) ==
    IF body.kind = "raise"
    THEN [kind |-> "raise",
          exc |-> HTTPException(500, "Analysis failed"),
          caught |-> body.exc,
          is_fake_trace |-> body.is_fake_trace]
    ELSE body

\* main.py:389-512
analyze_reviews(reviews, oracle) == ExceptException(ReviewsBody(reviews, oracle))

\* main.py:533-549
SingleReviewScored(fake_probability, features) ==
    LET indicators ==
            Indicator(features.fake_indicator_count > 1, "Contains fake review phrases")
            \o Indicator(FracGt(features.caps_ratio, 2, 10), "Excessive capitalization")
            \o Indicator(features.exclamation_count > 2, "Too many exclamation marks")
        confidence == Max(fake_probability, 100 - fake_probability)
    IN [kind |-> "return",
        value |-> [type |-> "SingleReviewResponse",
                   is_fake_probability |-> fake_probability,
                   confidence |-> confidence,
                   indicators |-> indicators],
        is_fake_trace |-> <<>>]

\* main.py:524-531
SinglePrediction(review_text, outcome) ==
    IF review_model # "None"
    THEN PredictOne(extract_features_for_xgboost(review_text).value, outcome)
    ELSE [raised |-> "none", pred |-> <<50, 50>>]

\* main.py:521-549, the body of the try
SingleReviewBody(review_text, outcome) ==
    With(SinglePrediction(review_text, outcome),
         LAMBDA p :
            IF p.raised # "none"
            THEN Raise([type |-> p.raised, detail |-> "predict_proba failed"], <<>>)
            ELSE With(extract_features_from_review(review_text),
                      LAMBDA f :
                         IF f.raised # "none" THEN Raise(f.exc, <<>>)
                         ELSE SingleReviewScored(FakeProbabilityOf(p.pred), f.value)))

\* main.py:515-553
analyze_single_review(review_text, outcome) ==
    ExceptException(SingleReviewBody(review_text, outcome))

-----------------------------------------------------------------------------
(* The state before startup: the module's globals (main.py:72-75), the     *)
(* outcome of the optional imports (main.py:39-48) and the model files.    *)
(* Each behaviour makes one call, request, drawn with the initial state.   *)

NoResponse == [op |-> "none"]

FileStates == {"loadable", "absent", "corrupt"}

\* the reviews submitted
ReviewTexts ==
    {"", "   ", "ok product",
     "Highly recommend, must buy",
     "life changing, must buy, highly recommend",
     "AMAZING QUALITY!!!! LIFE CHANGING, MUST BUY, HIGHLY RECOMMEND, CHANGED MY LIFE"}

Requests ==
    [op : {"analyze_reviews"}, reviews : SeqsUpTo(ReviewTexts, MaxBatch)]
    \cup [op : {"analyze_single_review"}, review_text : ReviewTexts]

Init ==
    /\ ML_AVAILABLE \in BOOLEAN
    /\ np_bound \in BOOLEAN
    /\ ML_AVAILABLE => np_bound
    /\ xgboost_pkl \in FileStates
    /\ processed_pkl \in FileStates
    /\ review_model = "None"
    /\ vectorizer = "None"
    /\ phase = "boot"
    /\ request \in Requests
    /\ response = NoResponse

\* the state the pure functions are exercised in
InitPure ==
    /\ ML_AVAILABLE = TRUE
    /\ np_bound = TRUE
    /\ xgboost_pkl = "loadable"
    /\ processed_pkl = "loadable"
    /\ review_model = "None"
    /\ vectorizer = "None"
    /\ phase = "boot"
    /\ response = NoResponse

Pending(op) == request.op = op /\ response = NoResponse

-----------------------------------------------------------------------------
(* Startup and the review handlers.                                        *)

\* main.py:372-376: startup_event awaits load_models, then init_firebase
\* (main.py:909-943), which catches all it raises
LoadModels ==
    /\ phase = "boot"
    /\ LET r == load_models
       IN /\ review_model' = r.review_model
          /\ vectorizer' = r.vectorizer
          /\ phase' = IF r.raised = "none" THEN "serving" ELSE "startup_failed"
    /\ UNCHANGED <<ML_AVAILABLE, np_bound, xgboost_pkl, processed_pkl, request, response>>

\* what the trained model's predict_proba([features])[0] may do: return a pair
\* [P(legitimate), P(fake)] or a single probability (in percent), or raise
TrainedOutcomes ==
    [raised : {"none"},
     pred : {<<100 - p, p>> : p \in {0, 50, 60, 70, 71, 100}} \cup {<<80>>}]
    \cup {[raised |-> "ValueError", pred |-> <<>>]}

\* one outcome per review; only the trained model draws on it
Oracles(n) ==
    IF review_model = "Trained" THEN [1..n -> TrainedOutcomes]
    ELSE {[k \in 1..n |-> [raised |-> "none", pred |-> <<>>]]}

AnalyzeReviews ==
    /\ phase = "serving"
    /\ Pending("analyze_reviews")
    /\ \E oracle \in Oracles(Len(request.reviews)) :
          response' = [op |-> request.op,
                       result |-> analyze_reviews(request.reviews, oracle)]
    /\ UNCHANGED env

AnalyzeSingleReview ==
    /\ phase = "serving"
    /\ Pending("analyze_single_review")
    /\ \E oracle \in Oracles(1) :
          response' = [op |-> request.op,
                       result |-> analyze_single_review(request.review_text, oracle[1])]
    /\ UNCHANGED env

Next == LoadModels \/ AnalyzeReviews \/ AnalyzeSingleReview

Spec == Init /\ [][Next]_vars

-----------------------------------------------------------------------------
(* Feature extraction applied to bounded texts.                            *)

FeatureChunks == {"Ab", "C", "7", "!", "?", " ", "a@b.co", "http://", "https://x"}
FeatureTexts == TextsUpTo(FeatureChunks, MaxChunks)

FeatureRequests ==
    [op : {"extract_features_for_xgboost"}, text : FeatureTexts]
    \cup {r \in [op : {"extract_additional_features"}, text : FeatureTexts,
                  textblob : BOOLEAN, sentiment : SentimentValues] :
             r.textblob \/ r.sentiment = <<0, 0>>}

InitFeatures == InitPure /\ request \in FeatureRequests

ExtractFeaturesForXgboost ==
    /\ Pending("extract_features_for_xgboost")
    /\ response' = [op |-> request.op,
                    result |-> extract_features_for_xgboost(request.text)]
    /\ UNCHANGED env

ExtractAdditionalFeatures ==
    /\ Pending("extract_additional_features")
    /\ response' = [op |-> request.op,
                    result |-> extract_additional_features(
                                  request.text, request.textblob, request.sentiment)]
    /\ UNCHANGED env

NextFeatures == ExtractFeaturesForXgboost \/ ExtractAdditionalFeatures

SpecFeatures == InitFeatures /\ [][NextFeatures]_vars

-----------------------------------------------------------------------------
(* The trust scorer applied to bounded WebsiteSignals.                     *)

Optional(S) == {<<>>} \cup {<<v>> : v \in S}

SuspiciousTags == {"excessive_popups", "urgency_tactics", "hidden_iframe"}

WebsiteSignals ==
    [has_ssl              : Optional(BOOLEAN),
     has_contact_info     : Optional(BOOLEAN),
     has_privacy_policy   : Optional(BOOLEAN),
     has_terms_of_service : Optional(BOOLEAN),
     suspicious_elements  : Optional(SeqsUpTo(SuspiciousTags, MaxSuspicious)),
     domain_age_days      : Optional({0, 90, 91, 365, 366}),
     url_length           : Optional({0, 100, 101})]

InitTrust ==
    /\ InitPure
    /\ request \in [op : {"analyze_website_legitimacy"}, data : WebsiteSignals]

AnalyzeWebsiteLegitimacy ==
    /\ Pending("analyze_website_legitimacy")
    /\ response' = [op |-> request.op,
                    result |-> analyze_website_legitimacy(request.data)]
    /\ UNCHANGED env

NextTrust == AnalyzeWebsiteLegitimacy

SpecTrust == InitTrust /\ [][NextTrust]_vars

-----------------------------------------------------------------------------
(* Properties of the trust scorer (SpecTrust).                             *)

Scored == response.op = "analyze_website_legitimacy"

Flag(field) == field = <<TRUE>>

\* the sum of the deltas of the scoring table
TableDelta(d) ==
    (IF Flag(d.has_ssl) THEN 20 ELSE -20)
    + (IF Flag(d.has_contact_info) THEN 15 ELSE 0)
    + (IF Flag(d.has_privacy_policy) THEN 10 ELSE 0)
    + (IF Flag(d.has_terms_of_service) THEN 10 ELSE 0)
    - 10 * (IF d.suspicious_elements = <<>> THEN 0 ELSE Len(d.suspicious_elements[1]))
    + (IF d.domain_age_days = <<>> THEN -10
       ELSE IF d.domain_age_days[1] > 365 THEN 15
       ELSE IF d.domain_age_days[1] > 90 THEN 5
       ELSE -10)
    + (IF d.url_length # <<>> /\ d.url_length[1] > 100 THEN -5 ELSE 0)

\* C1: the trust score is max(0, min(100, 50 + d)), d the sum of the table's
\* deltas for the signals given, and so an integer in [0, 100]
C1_TrustScoreIsClampedSum ==
    Scored =>
        /\ response.result.trust_score = Max(0, Min(100, 50 + TableDelta(request.data)))
        /\ response.result.trust_score \in 0..100

\* a score whose unclamped sum exceeds 100
C1_Witness ==
    /\ Scored
    /\ 50 + TableDelta(request.data) > 100
    /\ response.result.trust_score = 100

\* C2: status, risk_level and is_legitimate are decided by trust_score alone:
\* >= 70 low/safe/true, 40..69 medium/warning/true, < 40 high/danger/false
C2_VerdictFollowsScore ==
    Scored =>
        LET r == response.result
        IN /\ r.trust_score >= 70 =>
                r.risk_level = "low" /\ r.status = "safe" /\ r.is_legitimate
           /\ (r.trust_score >= 40 /\ r.trust_score < 70) =>
                r.risk_level = "medium" /\ r.status = "warning" /\ r.is_legitimate
           /\ r.trust_score < 40 =>
                r.risk_level = "high" /\ r.status = "danger" /\ ~r.is_legitimate
           /\ <<r.status, r.risk_level, r.is_legitimate>> \in
                {<<"safe", "low", TRUE>>, <<"warning", "medium", TRUE>>,
                 <<"danger", "high", FALSE>>}

\* a verdict at the inclusive lower bound of the low-risk band
C2_Witness ==
    Scored /\ response.result.trust_score = 70 /\ response.result.status = "safe"

\* the WebsiteSignals of the worked example: nothing present, no suspicious
\* element, domain_age_days 0, url_length 0
BareSite ==
    [has_ssl |-> <<FALSE>>, has_contact_info |-> <<FALSE>>,
     has_privacy_policy |-> <<FALSE>>, has_terms_of_service |-> <<FALSE>>,
     suspicious_elements |-> <<<<>>>>, domain_age_days |-> <<0>>, url_length |-> <<0>>]

\* C3 as stated: the bare site scores 50 - 20 = 30, high / danger / not legitimate
C3_BareSiteScores30 ==
    (Scored /\ request.data = BareSite) =>
        /\ response.result.trust_score = 30
        /\ response.result.risk_level = "high"
        /\ response.result.status = "danger"
        /\ ~response.result.is_legitimate

\* C3 amended: the bare site scores 50 - 20 - 10 = 20 (domain_age_days 0 is
\* not above 90 and costs 10), high / danger / not legitimate
C3_BareSiteScores20 ==
    (Scored /\ request.data = BareSite) =>
        /\ response.result.trust_score = 20
        /\ response.result.risk_level = "high"
        /\ response.result.status = "danger"
        /\ ~response.result.is_legitimate

\* the bare site has been scored
C3_Witness == Scored /\ request.data = BareSite

-----------------------------------------------------------------------------
(* Properties of the feature extractor (SpecFeatures).                     *)

Vectorised == response.op = "extract_features_for_xgboost"
Described == response.op = "extract_additional_features"

\* the number of whitespace-delimited tokens of t, counted at their first characters
TokenCount(t) ==
    Cardinality({i \in 1..Len(t) :
                    /\ Char(t, i) \notin WhitespaceChars
                    /\ (i = 1 \/ Char(t, i - 1) \in WhitespaceChars)})

\* C9: for every text the numeric feature vector has exactly ten elements, in the
\* order text_length, word_count, avg_word_length, uppercase_ratio, digit_ratio,
\* punctuation_ratio, exclamation_count, question_count, has_email, has_url, and
\* the last two are 0 or 1
C9_VectorHasTenOrderedFeatures ==
    Vectorised =>
        LET v == response.result.value
            t == request.text
        IN /\ response.result.raised = "none"
           /\ Len(v) = 10
           /\ v[1] = Len(t)
           /\ v[2] = TokenCount(t)
           /\ v[3] = avg_word_length(t)
           /\ v[4] = uppercase_ratio(t)
           /\ v[5] = digit_ratio(t)
           /\ v[6] = punctuation_ratio(t)
           /\ v[7] = Cardinality({i \in 1..Len(t) : Char(t, i) = "!"})
           /\ v[8] = Cardinality({i \in 1..Len(t) : Char(t, i) = "?"})
           /\ v[9] = (IF email_search(t) THEN 1 ELSE 0)
           /\ v[10] = (IF url_search(t) THEN 1 ELSE 0)
           /\ v[9] \in {0, 1}
           /\ v[10] \in {0, 1}

\* a vector of a text with an e-mail address and more '!' than '?'
C9_Witness ==
    /\ Vectorised
    /\ Len(response.result.value) = 10
    /\ response.result.value[7] > response.result.value[8]
    /\ response.result.value[9] = 1

\* r is cnt / Len(t), or 0 for the empty text, and lies in [0, 1]
IsRatio(r, cnt, t) ==
    /\ r = (IF t = "" THEN Zero ELSE Frac(cnt, Len(t)))
    /\ r.den > 0
    /\ 0 <= r.num
    /\ r.num <= r.den

\* C10: feature extraction never divides by zero; uppercase_ratio, digit_ratio and
\* punctuation_ratio are count / length in [0, 1] and 0 for the empty text;
\* avg_word_length is 0 when the text has no whitespace-delimited token
C10_NoDivisionByZero ==
    LET t == request.text
    IN /\ Vectorised =>
            /\ response.result.raised = "none"
            /\ IsRatio(response.result.value[4], CountIn(t, UpperChars), t)
            /\ IsRatio(response.result.value[5], CountIn(t, Digits), t)
            /\ IsRatio(response.result.value[6], CountIn(t, PunctuationChars), t)
            /\ response.result.value[3].den > 0
            /\ TokenCount(t) = 0 => response.result.value[3] = Zero
       /\ Described =>
            /\ response.result.raised = "none"
            /\ IsRatio(response.result.value.uppercase_ratio, CountIn(t, UpperChars), t)
            /\ IsRatio(response.result.value.digit_ratio, CountIn(t, Digits), t)

\* the features of the empty text
C10_Witness ==
    /\ Vectorised
    /\ request.text = ""
    /\ response.result.raised = "none"
    /\ response.result.value[4] = Zero

\* the names of the ten features of the numeric vector
VectorFeatureNames ==
    {"text_length", "word_count", "avg_word_length", "uppercase_ratio", "digit_ratio",
     "punctuation_ratio", "exclamation_count", "question_count", "has_email", "has_url"}

\* C11: for every text the dict of extract_additional_features has a key for each
\* of the ten features of the numeric vector and also caps_words_count,
\* sentiment_polarity and sentiment_subjectivity, and both sentiment values are 0
\* when TextBlob cannot be imported
C11_NamedSetHasAllKeys ==
    Described =>
        /\ response.result.raised = "none"
        /\ VectorFeatureNames \subseteq DOMAIN response.result.value
        /\ {"caps_words_count", "sentiment_polarity", "sentiment_subjectivity"}
               \subseteq DOMAIN response.result.value
        /\ ~request.textblob =>
               /\ response.result.value.sentiment_polarity = 0
               /\ response.result.value.sentiment_subjectivity = 0

-----------------------------------------------------------------------------
(* FallbackReviewClassifier.predict_proba applied to bounded inputs.       *)

LexiconChunks ==
    {"Amazing, PERFECT ", "best ever! Incredible ", "fast ", "shipping",
     "Must Buy", " ", "ok", "outstanding excellent quality"}
LexiconTexts == TextsUpTo(LexiconChunks, MaxChunks)

StrRow(s) == [kind |-> "str", text |-> s]
ListRow(s) == [kind |-> "list", value |-> extract_features_for_xgboost(s).value]

ClassifierRows ==
    {StrRow(s) : s \in LexiconTexts}
    \cup {ListRow(s) : s \in {"", "Amazing, PERFECT shipping", "Must Buy Must Buy!"}}
    \cup {[kind |-> "ndarray", value |-> v] :
            v \in {<<"fast", "shipping">>, <<"Amazing", "ok">>, <<"perf", "ect">>}}

\* the rows of the batches of more than one row
BatchRows ==
    {StrRow(""), StrRow("Must Buy"), StrRow("best ever! Incredible Amazing, PERFECT fast shipping"),
     ListRow("Must Buy"), [kind |-> "ndarray", value |-> <<"fast", "shipping">>]}

InitClassifier ==
    /\ InitPure
    /\ request \in [op : {"predict_proba"},
                    X : {<<row>> : row \in ClassifierRows} \cup SeqsUpTo(BatchRows, MaxBatch)]

PredictProba ==
    /\ Pending("predict_proba")
    /\ response' = [op |-> request.op, result |-> predict_proba(request.X)]
    /\ UNCHANGED env

NextClassifier == PredictProba

SpecClassifier == InitClassifier /\ [][NextClassifier]_vars

-----------------------------------------------------------------------------
(* Properties of the fallback classifier (SpecClassifier).                 *)

Predicted == response.op = "predict_proba"

\* the lexicon phrases found in the lower-cased text of a row
PhrasesFound(row) ==
    {ph \in {fake_indicators[k] : k \in 1..Len(fake_indicators)} :
        Contains(ph, lower(RowText(row)))}

\* C7: each row of predict_proba is [1 - p, p] with p = min(k / 5, 0.9), k the number
\* of lexicon phrases found in the lower-cased input; 0 <= p <= 0.9, and the two
\* entries sum to 1 (probabilities in percent)
C7_RowsAreCappedShares ==
    Predicted =>
        /\ Len(response.result) = Len(request.X)
        /\ \A r \in 1..Len(request.X) :
              LET k == Cardinality(PhrasesFound(request.X[r]))
                  p == IF k * 20 <= 90 THEN k * 20 ELSE 90
              IN /\ response.result[r] = <<100 - p, p>>
                 /\ response.result[r][2] >= 0
                 /\ response.result[r][2] <= 90
                 /\ response.result[r][1] + response.result[r][2] = 100

\* a row with five or more phrases, reported at 0.9
C7_Witness ==
    /\ Predicted
    /\ \E r \in 1..Len(request.X) :
          /\ Cardinality(PhrasesFound(request.X[r])) >= 5
          /\ response.result[r] = <<10, 90>>

-----------------------------------------------------------------------------
(* Properties of startup and of the review handlers (Spec).                *)

ReviewsAnswered == response.op = "analyze_reviews"
SingleAnswered == response.op = "analyze_single_review"

\* C4: an empty review list gets the specific no-input outcome, status 400 with
\* 'No reviews provided', not the generic analysis failure, before any item is scored
C4_EmptyBatchGetsNoInput400 ==
    (ReviewsAnswered /\ request.reviews = <<>>) =>
        /\ response.result.kind = "raise"
        /\ response.result.exc.status_code = 400
        /\ response.result.exc.detail = "No reviews provided"
        /\ response.result.is_fake_trace = <<>>

\* the rule-based fallback classifies: review_model is the FallbackReviewClassifier,
\* or the handlers take their rule-based branch
FallbackActive == review_model = "Fallback" \/ ~ML_AVAILABLE

\* C5: whatever the state of the model artifacts, load_models does not raise, and
\* when the trained model cannot be loaded the rule-based fallback is active
C5_StartupSurvivesAnyArtifact ==
    /\ phase # "startup_failed"
    /\ (phase = "serving" /\ xgboost_pkl # "loadable") => FallbackActive

LexiconShare(text) ==
    LET k == Cardinality({ph \in {fake_indicators[n] : n \in 1..Len(fake_indicators)} :
                             Contains(ph, lower(text))})
    IN IF k * 20 <= 90 THEN k * 20 ELSE 90

\* C8: with the FallbackReviewClassifier active, the P(fake) reported for a review
\* is min(k / 5, 0.9) for the k lexicon phrases of the review's raw text
C8_FallbackScoresRawText ==
    review_model = "Fallback" =>
        /\ (SingleAnswered /\ response.result.kind = "return") =>
              response.result.value.is_fake_probability = LexiconShare(request.review_text)
        /\ ReviewsAnswered =>
              \A k \in 1..Len(response.result.is_fake_trace) :
                  response.result.is_fake_trace[k].fake_probability
                      = LexiconShare(request.reviews[k])

-----------------------------------------------------------------------------
(* main.py: the text scanner, analyze_text.                                *)

\* the dict at main.py:757-762, in insertion order
scam_patterns ==
    <<[category |-> "urgency",
       patterns |-> <<"limited time", "act now", "expires today", "hurry">>],
      [category |-> "money_promises",
       patterns |-> <<"guaranteed income", "make money fast", "easy money">>],
      [category |-> "fake_urgency",
       patterns |-> <<"only today", "last chance", "don't miss out">>],
      [category |-> "personal_info",
       patterns |-> <<"ssn", "social security", "bank account", "routing number">>]>>

\* the dict appended at main.py:767-771
ScamIndicator(category, pattern) ==
    [category |-> category,
     pattern  |-> pattern,
     severity |-> IF category = "personal_info" THEN "high" ELSE "medium"]

\* a variant of the inner loop that stops at the first pattern that matches
RECURSIVE ScanPatterns_first_match(_, _, _, _)
ScanPatterns_first_match(category, patterns, i, text) ==
    IF i > Len(patterns) THEN <<>>
    ELSE IF Contains(patterns[i], text)
         THEN <<ScamIndicator(category, patterns[i])>>
         ELSE ScanPatterns_first_match(category, patterns, i + 1, text)

\* main.py:765-771: the inner loop, from the i-th pattern of a category on
RECURSIVE ScanPatterns(_, _, _, _)
ScanPatterns(category, patterns, i, text) ==
    IF i > Len(patterns) THEN <<>>
    ELSE (IF Contains(patterns[i], text)
          THEN <<ScamIndicator(category, patterns[i])>>
          ELSE <<>>)
         \o ScanPatterns(category, patterns, i + 1, text)

\* main.py:764: the outer loop, from the k-th category on
RECURSIVE ScanCategories(_, _)
ScanCategories(k, text) ==
    IF k > Len(scam_patterns) THEN <<>>
    ELSE ScanPatterns(scam_patterns[k].category, scam_patterns[k].patterns, 1, text)
         \o ScanCategories(k + 1, text)

\* a variant that looks at the first indicator only
TextRiskLevel_first_only(scam_indicators) ==
    IF scam_indicators = <<>> THEN "low"
    ELSE IF scam_indicators[1].severity = "high" THEN "high" ELSE "medium"

\* main.py:773-774
TextRiskLevel(scam_indicators) ==
    IF \E i \in 1..Len(scam_indicators) : scam_indicators[i].severity = "high"
    THEN "high"
    ELSE IF scam_indicators # <<>> THEN "medium" ELSE "low"

\* main.py:754-780; nothing in the try body raises for a str
analyze_text(request_text) ==
    LET text == lower(request_text)
        scam_indicators == ScanCategories(1, text)
    IN [kind  |-> "return",
        value |-> [risk_level      |-> TextRiskLevel(scam_indicators),
                   scam_indicators |-> scam_indicators,
                   is_suspicious   |-> Len(scam_indicators) > 0]]

-----------------------------------------------------------------------------
(* The text scanner applied to bounded texts.                              *)

ScannerChunks ==
    {"Act Now", "hurry", ", ", "guaranteed income", "easy money", "don't miss out",
     "SSN", "bank account", "less", "n", "ok"}
ScannerTexts == TextsUpTo(ScannerChunks, MaxChunks)

InitScanner ==
    /\ InitPure
    /\ request \in [op : {"analyze_text"}, text : ScannerTexts]

AnalyzeText ==
    /\ Pending("analyze_text")
    /\ response' = [op |-> request.op, result |-> analyze_text(request.text)]
    /\ UNCHANGED env

NextScanner == AnalyzeText

SpecScanner == InitScanner /\ [][NextScanner]_vars

-----------------------------------------------------------------------------
(* Properties of the text scanner (SpecScanner).                           *)

Scanned == response.op = "analyze_text"

\* the registry as one list of (category, pattern) pairs, in registry order
Registry ==
    <<<<"urgency", "limited time">>, <<"urgency", "act now">>,
      <<"urgency", "expires today">>, <<"urgency", "hurry">>,
      <<"money_promises", "guaranteed income">>, <<"money_promises", "make money fast">>,
      <<"money_promises", "easy money">>,
      <<"fake_urgency", "only today">>, <<"fake_urgency", "last chance">>,
      <<"fake_urgency", "don't miss out">>,
      <<"personal_info", "ssn">>, <<"personal_info", "social security">>,
      <<"personal_info", "bank account">>, <<"personal_info", "routing number">>>>

\* the registry entries whose pattern is a substring of the lower-cased text
Matching(text) == {k \in 1..Len(Registry) : Contains(Registry[k][2], lower(text))}

\* the k-th smallest element of a set of numbers
RECURSIVE Nth(_, _)
Nth(S, k) ==
    LET m == CHOOSE x \in S : \A y \in S : x <= y
    IN IF k = 1 THEN m ELSE Nth(S \ {m}, k - 1)

\* C12: the indicator list of analyze_text has exactly one entry per registry
\* pattern that is a substring of the lower-cased text, several of one category
\* when several of its patterns match, in registry order; an entry's severity is
\* high iff its category is personal_info and medium otherwise
C12_OneIndicatorPerMatch ==
    Scanned =>
        LET ind == response.result.value.scam_indicators
            M == Matching(request.text)
        IN /\ response.result.kind = "return"
           /\ Len(ind) = Cardinality(M)
           /\ \A i \in 1..Len(ind) :
                 /\ ind[i].category = Registry[Nth(M, i)][1]
                 /\ ind[i].pattern = Registry[Nth(M, i)][2]
                 /\ ind[i].severity = "high" <=> ind[i].category = "personal_info"
                 /\ ind[i].severity = "medium" <=> ind[i].category # "personal_info"

\* a text in upper case that matches two patterns of one category and one of another
C12_Witness ==
    /\ Scanned
    /\ request.text # lower(request.text)
    /\ LET ind == response.result.value.scam_indicators
       IN /\ Len(ind) = 3
          /\ ind[1].category = "urgency"
          /\ ind[2].category = "urgency"
          /\ ind[3].category = "personal_info"

\* C13: risk_level is high iff some recorded indicator has severity high (a
\* personal_info match), medium iff there are indicators and none is high, low
\* iff there is none; is_suspicious is true exactly when the list is non-empty
C13_RiskFollowsIndicators ==
    Scanned =>
        LET v == response.result.value
            ind == v.scam_indicators
            anyHigh == \E i \in 1..Len(ind) : ind[i].severity = "high"
            personal == \E k \in Matching(request.text) : Registry[k][1] = "personal_info"
        IN /\ v.risk_level \in {"high", "medium", "low"}
           /\ v.risk_level = "high" <=> anyHigh
           /\ anyHigh <=> personal
           /\ v.risk_level = "medium" <=> (ind # <<>> /\ ~anyHigh)
           /\ v.risk_level = "low" <=> ind = <<>>
           /\ v.is_suspicious <=> ind # <<>>
           /\ v.risk_level = "low" <=> ~v.is_suspicious

\* a high risk whose first indicator is of severity medium
C13_Witness ==
    /\ Scanned
    /\ response.result.value.risk_level = "high"
    /\ response.result.value.is_suspicious
    /\ Len(response.result.value.scam_indicators) >= 2
    /\ response.result.value.scam_indicators[1].severity = "medium"

-----------------------------------------------------------------------------
(* Properties of the batch summary of analyze_reviews (Spec).              *)

Returned == response.result.kind = "return"

\* analyze_reviews returned a ReviewAnalysisResponse
BatchSummary == ReviewsAnswered /\ Returned /\ response.result.value.type = "ReviewAnalysisResponse"

\* C14: for a non-empty batch whose every item got a probability from the active
\* classifier without a throw, analyze_reviews returns a ReviewAnalysisResponse, not
\* an error, with total_reviews the number of reviews and fake_reviews the number
\* of per-item results whose is_fake is true
C14_ScoredBatchIsSummarised ==
    (/\ ReviewsAnswered
     /\ request.reviews # <<>>
     /\ Len(response.result.is_fake_trace) = Len(request.reviews)) =>
        /\ BatchSummary
        /\ response.result.value.total_reviews = Len(request.reviews)
        /\ LET da == response.result.value.detailed_analysis
           IN response.result.value.fake_reviews
                  = Cardinality({i \in 1..Len(da) : da[i].is_fake})

\* the number of phrases of review_fake_indicators in the lower-cased text
PhraseCount(text) ==
    Cardinality({n \in 1..Len(review_fake_indicators) :
                    Contains(review_fake_indicators[n], lower(text))})

\* the number of indicators of the items before item i
RECURSIVE Offset(_, _)
Offset(da, i) == IF i <= 1 THEN 0 ELSE Offset(da, i - 1) + Len(da[i - 1].indicators)

\* C15: in every ReviewAnalysisResponse detailed_analysis has one entry per review,
\* in input order (entry i has the index of, and is the result for, the i-th
\* review), and fake_review_indicators is the concatenation of the items'
\* indicator lists in that order
C15_ItemsKeepInputOrder ==
    BatchSummary =>
        LET da == response.result.value.detailed_analysis
            flat == response.result.value.fake_review_indicators
            n == Len(request.reviews)
        IN /\ Len(da) = n
           /\ \A i \in 1..n :
                 /\ da[i].review_index = i - 1
                 /\ da[i].features.length = Len(request.reviews[i])
                 /\ da[i].features.fake_indicator_count = PhraseCount(request.reviews[i])
                 /\ \A k \in 1..Len(da[i].indicators) :
                       /\ Offset(da, i) + k <= Len(flat)
                       /\ flat[Offset(da, i) + k] = da[i].indicators[k]
           /\ Len(flat) = Offset(da, n + 1)

\* a summary of two reviews of different lengths whose indicator lists differ
C15_Witness ==
    /\ BatchSummary
    /\ Len(response.result.value.detailed_analysis) = 2
    /\ LET da == response.result.value.detailed_analysis
       IN /\ da[1].indicators # <<>>
          /\ da[2].indicators # <<>>
          /\ da[1].indicators # da[2].indicators
          /\ da[1].features.length # da[2].features.length

\* the sum of the confidences of the first n items
RECURSIVE ConfidenceTotal(_, _)
ConfidenceTotal(da, n) ==
    IF n = 0 THEN 0 ELSE ConfidenceTotal(da, n - 1) + da[n].confidence

\* C16: the confidence of every ReviewAnalysisResponse is the arithmetic mean of the
\* items' confidences (the item's own confidence for a batch of one), and no path
\* of analyze_reviews divides by an item count of zero
C16_ConfidenceIsMean ==
    ReviewsAnswered =>
        /\ BatchSummary =>
              LET da == response.result.value.detailed_analysis
                  c == response.result.value.confidence
              IN /\ c.den = Len(da)
                 /\ c.den > 0
                 /\ c.num = ConfidenceTotal(da, Len(da))
                 /\ Len(da) = 1 => c = Frac(da[1].confidence, 1)
        /\ "caught" \in DOMAIN response.result =>
              response.result.caught.type # "ZeroDivisionError"

\* a summary of two reviews with different confidences
C16_Witness ==
    /\ BatchSummary
    /\ Len(response.result.value.detailed_analysis) = 2
    /\ response.result.value.detailed_analysis[1].confidence
           # response.result.value.detailed_analysis[2].confidence
    /\ response.result.value.confidence.den = 2

\* C17: every per-item confidence of analyze_reviews and the confidence of
\* analyze_single_review is max(P(fake), 1 - P(fake)), hence in [0.5, 1]
C17_ConfidenceIsDistanceFromHalf ==
    /\ BatchSummary =>
          \A i \in 1..Len(response.result.value.detailed_analysis) :
              LET item == response.result.value.detailed_analysis[i]
                  p == item.fake_probability
              IN /\ item.confidence = (IF p >= 100 - p THEN p ELSE 100 - p)
                 /\ item.confidence \in 50..100
    /\ (SingleAnswered /\ Returned) =>
          LET p == response.result.value.is_fake_probability
              c == response.result.value.confidence
          IN /\ c = (IF p >= 100 - p THEN p ELSE 100 - p)
             /\ c \in 50..100

\* an item of a summary whose P(fake) is below one half
C17_Witness ==
    /\ BatchSummary
    /\ \E i \in 1..Len(response.result.value.detailed_analysis) :
          /\ response.result.value.detailed_analysis[i].fake_probability = 40
          /\ response.result.value.detailed_analysis[i].confidence = 60

\* the exceptions predict_proba of the trained model raises
ClassifierErrors == {o.raised : o \in TrainedOutcomes} \ {"none"}

\* the handler caught an exception that predict_proba raised
ClassifierThrew ==
    /\ "caught" \in DOMAIN response.result
    /\ response.result.caught.type \in ClassifierErrors

-----------------------------------------------------------------------------
(* Properties of the warnings of analyze_website_legitimacy (SpecTrust).   *)

\* the four warnings, in the order of their checks
WarningTexts ==
    <<"Website does not use HTTPS encryption",
      "No contact information found",
      "Excessive popup advertisements detected",
      "Urgency pressure tactics detected">>

\* the tags of suspicious_elements, none when the key is absent
TagsOf(d) ==
    IF d.suspicious_elements = <<>> THEN {}
    ELSE {d.suspicious_elements[1][i] : i \in 1..Len(d.suspicious_elements[1])}

\* the checks that fire for the signals d, by their position in WarningTexts
Due(d) ==
    {k \in 1..4 :
        \/ k = 1 /\ d.has_ssl # <<TRUE>>
        \/ k = 2 /\ d.has_contact_info # <<TRUE>>
        \/ k = 3 /\ "excessive_popups" \in TagsOf(d)
        \/ k = 4 /\ "urgency_tactics" \in TagsOf(d)}

\* C19: the warnings are, in this order and each at most once, the missing-HTTPS
\* warning iff has_ssl is false or absent, the no-contact warning iff
\* has_contact_info is false or absent, the popups warning iff 'excessive_popups' is
\* in suspicious_elements and the urgency warning iff 'urgency_tactics' is; they
\* are a function of these four conditions alone, not of the trust score
C19_WarningsFollowRawSignals ==
    Scored =>
        LET w == response.result.warnings
            due == Due(request.data)
        IN /\ Len(w) = Cardinality(due)
           /\ \A i \in 1..Len(w) : w[i] = WarningTexts[Nth(due, i)]
           /\ \A i, j \in 1..Len(w) : w[i] = w[j] => i = j

\* a site that names 'excessive_popups' twice, has no HTTPS and still scores 40 or more
C19_Witness ==
    /\ Scored
    /\ request.data.suspicious_elements # <<>>
    /\ Len(SelectSeq(request.data.suspicious_elements[1],
                     LAMBDA e : e = "excessive_popups")) = 2
    /\ response.result.warnings
           = <<"Website does not use HTTPS encryption",
               "Excessive popup advertisements detected">>
    /\ response.result.trust_score >= 40

-----------------------------------------------------------------------------
(* One process serving several requests.  The handlers are coroutines      *)
(* without an await, so the event loop runs each of them to its end before *)
(* the next: the requests are served one at a time, in any order.  Here    *)
(* request and response are indexed by the request.                        *)

ServedRequests ==
    [op : {"analyze_reviews"}, reviews : {<<>>, <<"ok product">>}]
    \cup [op : {"analyze_single_review"}, review_text : {"ok product"}]

InitServing ==
    /\ ML_AVAILABLE \in BOOLEAN
    /\ np_bound \in BOOLEAN
    /\ ML_AVAILABLE => np_bound
    /\ xgboost_pkl \in FileStates
    /\ processed_pkl \in FileStates
    /\ review_model = "None"
    /\ vectorizer = "None"
    /\ phase = "boot"
    /\ request \in [1..MaxRequests -> ServedRequests]
    /\ response = [id \in 1..MaxRequests |-> NoResponse]

\* a variant in which a handler resets the global
ModelAfterHandler_reset == "None"

\* main.py:389-553: no handler has a `global review_model` statement or assigns
\* to the name; the global is left as it was
ModelAfterHandler == review_model

\* analyze_reviews serves request id; classifier is the review_model it read
ServeReviews(id) ==
    /\ phase = "serving"
    /\ request[id].op = "analyze_reviews"
    /\ response[id] = NoResponse
    /\ \E oracle \in Oracles(Len(request[id].reviews)) :
          response' = [response EXCEPT ![id] =
                          [op |-> request[id].op,
                           result |-> analyze_reviews(request[id].reviews, oracle),
                           classifier |-> review_model]]
    /\ review_model' = ModelAfterHandler
    /\ UNCHANGED <<ML_AVAILABLE, np_bound, xgboost_pkl, processed_pkl,
                   vectorizer, phase, request>>

\* analyze_single_review serves request id
ServeSingleReview(id) ==
    /\ phase = "serving"
    /\ request[id].op = "analyze_single_review"
    /\ response[id] = NoResponse
    /\ \E oracle \in Oracles(1) :
          response' = [response EXCEPT ![id] =
                          [op |-> request[id].op,
                           result |-> analyze_single_review(request[id].review_text,
                                                            oracle[1]),
                           classifier |-> review_model]]
    /\ review_model' = ModelAfterHandler
    /\ UNCHANGED <<ML_AVAILABLE, np_bound, xgboost_pkl, processed_pkl,
                   vectorizer, phase, request>>

NextServing ==
    \/ LoadModels
    \/ \E id \in 1..MaxRequests : ServeReviews(id)
    \/ \E id \in 1..MaxRequests : ServeSingleReview(id)

SpecServing == InitServing /\ [][NextServing]_vars

-----------------------------------------------------------------------------
(* Properties of the shared classifier (SpecServing).                      *)

\* the requests served so far
Served == {id \in 1..MaxRequests : response[id] # NoResponse}

\* C20: review_model is written by load_models only, in the one step of startup;
\* no handler writes it, so in any order of the requests served after startup
\* every request reads the same classifier, which is never loaded again or replaced
C20_ClassifierWrittenAtStartupOnly ==
    [][/\ review_model' # review_model => (phase = "boot" /\ phase' # "boot")
       /\ phase # "boot" => (review_model' = review_model /\ phase' = phase)
       /\ response' # response => review_model' = review_model
       /\ \A i, j \in Served' : response'[i].classifier = response'[j].classifier
       /\ \A i \in Served' : response'[i].classifier = review_model']_vars

\* every request is served, two different handlers among them, by the classifier
\* that startup loaded
C20_Witness ==
    /\ Served = 1..MaxRequests
    /\ \E i, j \in Served : response[i].op # response[j].op
    /\ review_model # "None"
    /\ \A i \in Served : response[i].classifier = review_model

-----------------------------------------------------------------------------
(* Properties of the 'Model prediction failed' outcome (Spec).             *)

\* analyze_reviews returned the dict of main.py:489
PredictionFailed ==
    /\ ReviewsAnswered
    /\ Returned
    /\ response.result.value.type = "dict"

\* C21: analyze_reviews returns the 'Model prediction failed' outcome only when
\* predict_proba itself threw; when a loaded classifier returned a probability for
\* the items of a non-empty batch, no other step of the loop (feature extraction,
\* the indicators from extract_additional_features, the confidence) raises and
\* the outcome is not returned
C21_PredictionFailedOnlyOnThrow ==
    /\ PredictionFailed => ClassifierThrew
    /\ (/\ ReviewsAnswered
        /\ request.reviews # <<>>
        /\ review_model # "None"
        /\ response.result.is_fake_trace # <<>>) => ~PredictionFailed

====
